---- MODULE Spec2Model ----
(***************************************************************************)
(* A model of two pieces of SteamHelper-rs:                                *)
(*   - the schema compiler of steam-language-gen (src/bin/generate.rs):    *)
(*     main's class loop, the nom-based extractors, parse_stmts and the    *)
(*     petgraph schema graph;                                              *)
(*   - Confirmations::filter_by_trade_offer_ids of steam-mobile.           *)
(*                                                                         *)
(* A byte slice (&[u8]) is a sequence of bytes, a String a sequence of     *)
(* chars.  An ASCII byte and its char are the same one-character string.   *)
(* One two-byte UTF-8 scalar is modelled: the bytes "C3" "A9" decode to    *)
(* the char "U+E9".                                                        *)
(***************************************************************************)
EXTENDS Integers, Sequences, FiniteSets, TLC

VARIABLES
    file_steam_msg,   \* main: the embedded document (bytes of a valid str)
    blocks,           \* the blocks the document was written from (its meaning)
    next_block,       \* main: the slice still to be scanned
    value,            \* main: <<block, rest, class name>> of the current class
    graph,            \* main: the petgraph Graph: nodes and edges in insertion order
    class_node,       \* main: index of the current class node
    attributes_code,  \* extract_members_exhaustive: the slice still to be lexed
    tokens,           \* extract_members_exhaustive: the members found so far
    stmts,            \* the statements a class body was written from (its meaning)
    members,          \* main: the members as Strings
    decls,            \* the token lists the declarations were written from
    parsed_stmts,     \* main: the (name, type) vectors still to be inserted
    confirmations,    \* Confirmations.0
    fetched,          \* the Confirmations list as it was before the filter
    trade_offer_ids,  \* the ids given to filter_by_trade_offer_ids
    panic,            \* "none", or the call that panicked
    pc                \* position in main / in the function under study

vars == <<file_steam_msg, blocks, next_block, value, graph, class_node,
          attributes_code, tokens, stmts, members, decls, parsed_stmts,
          confirmations, fetched, trade_offer_ids, panic, pc>>

----------------------------------------------------------------------------
(* Bounds of the model *)

MaxBlocks == 2
MaxStmts == 3
MaxDecls == 2
MaxConfs == 3
MaxIds == 2

----------------------------------------------------------------------------
(* Sequences *)

Range(s) == {s[i] : i \in 1..Len(s)}

MinOf(S) == CHOOSE i \in S : \A j \in S : i <= j

\* The(S): the element of a one-element set.  "The({ e(x) : x \in {v} })" is
\* "LET x == v IN e(x)" with v evaluated once.
The(S) == CHOOSE x \in S : TRUE

RECURSIVE Concat(_)
Concat(ss) == IF ss = <<>> THEN <<>> ELSE Head(ss) \o Concat(Tail(ss))

SeqsUpTo(S, n) == UNION {[1..k -> S] : k \in 0..n}

----------------------------------------------------------------------------
(* nom::bytes::complete and nom::sequence, as generate.rs uses them.  A     *)
(* parser result is [ok, rest, out]: Ok((rest, out)) or Err.                *)

Fail == [ok |-> FALSE, rest |-> <<>>, out |-> <<>>]

\* FindSubstring: index of the first occurrence of t in s, 0 when absent.
find_substring(s, t) ==
    The({ IF P = {} THEN 0 ELSE MinOf(P) :
          P \in {{i \in 1..(Len(s) - Len(t) + 1) : SubSeq(s, i, i + Len(t) - 1) = t}} })

take_until(t, s) ==
    The({ IF i = 0 THEN Fail
          ELSE [ok |-> TRUE, rest |-> SubSeq(s, i, Len(s)), out |-> SubSeq(s, 1, i - 1)] :
          i \in {find_substring(s, t)} })

tag(t, s) ==
    IF Len(s) >= Len(t) /\ SubSeq(s, 1, Len(t)) = t
    THEN [ok |-> TRUE, rest |-> SubSeq(s, Len(t) + 1, Len(s)), out |-> t]
    ELSE Fail

\* is_a: the longest non-empty prefix made of the given characters.
is_a(chars, s) ==
    The({ The({ IF n = 0 THEN Fail
                ELSE [ok |-> TRUE, rest |-> SubSeq(s, n + 1, Len(s)),
                      out |-> SubSeq(s, 1, n)] :
                n \in {IF P = {} THEN Len(s) ELSE MinOf(P) - 1} }) :
          P \in {{i \in 1..Len(s) : s[i] \notin chars}} })

\* preceded(first, second): second's result on first's rest, first's output dropped.
preceded(first, second) == IF first.ok THEN second ELSE Fail

----------------------------------------------------------------------------
(* String::from_utf8 *)

LEAD == "C3"
CONT == "A9"
E_ACUTE == "U+E9"

\* Ok(val) when every lead byte is followed by a continuation byte and every
\* continuation byte follows a lead byte; val holds one char per scalar.
from_utf8(bytes) ==
    LET valid == \A i \in 1..Len(bytes) :
                    /\ bytes[i] = LEAD => (i < Len(bytes) /\ bytes[i + 1] = CONT)
                    /\ bytes[i] = CONT => (i > 1 /\ bytes[i - 1] = LEAD)
        firsts == SelectSeq(bytes, LAMBDA b : b # CONT)
    IN  IF valid
        THEN [ok |-> TRUE,
              val |-> [i \in 1..Len(firsts) |->
                          IF firsts[i] = LEAD THEN E_ACUTE ELSE firsts[i]]]
        ELSE [ok |-> FALSE, val |-> <<>>]

\* the members mapped through String::from_utf8(..).unwrap() (main, lines 30-33)
members_utf8(ts) == [i \in 1..Len(ts) |-> from_utf8(ts[i])]

----------------------------------------------------------------------------
(* The extractors of generate.rs *)

CLASS == <<"c", "l", "a", "s", "s", " ">>
CLASS_EOF == <<"}", ";">>

take_until_class(stream) == take_until(CLASS, stream)
take_until_class_eof(stream) == take_until(CLASS_EOF, stream)
take_until_open_bracket(stream) == take_until(<<"{">>, stream)
take_until_lessthan(stream) == take_until(<<"<">>, stream)

NoValue == <<<<>>, <<>>, <<>>>>

\* kind "None": no class; "panic": take_until_lessthan(..).unwrap() failed;
\* "Some": v = <<block, rest, class name>>
extract_class_code_rest_kept(stream) ==
    The({ The({ The({ The({
        IF ~c.ok THEN [kind |-> "None", v |-> NoValue]
        ELSE IF ~parsed_classname.ok THEN [kind |-> "panic", v |-> NoValue]
        ELSE [kind |-> "Some", v |-> <<c.out, a.rest, parsed_classname.out>>] :
            parsed_classname \in {take_until_lessthan(c.out)} }) :
            c \in {preceded(b, take_until_class_eof(b.rest))} }) :
            b \in {preceded(a, tag(CLASS, a.rest))} }) :
            a \in {take_until_class(stream)} })

extract_class_code(stream) ==
    The({ The({ The({ The({
        IF ~c.ok THEN [kind |-> "None", v |-> NoValue]
        ELSE IF ~parsed_classname.ok THEN [kind |-> "panic", v |-> NoValue]
        ELSE [kind |-> "Some", v |-> <<c.out, c.rest, parsed_classname.out>>] :
            parsed_classname \in {take_until_lessthan(c.out)} }) :
            c \in {preceded(b, take_until_class_eof(b.rest))} }) :
            b \in {preceded(a, tag(CLASS, a.rest))} }) :
            a \in {take_until_class(stream)} })

\* Some((rest after "{", "{")) or None
extract_attr_lines(stream) ==
    The({ preceded(a, tag(<<"{">>, a.rest)) : a \in {take_until_open_bracket(stream)} })

clear_lines_tab_no_tab(stream) == is_a({"\r", "\n"}, stream)

clear_lines_tab(stream) == is_a({"\r", "\n", "\t"}, stream)

\* Some((member, rest after ";")) as [ok, out, rest], or None
extract_member_keeps_semicolon(stream) ==
    The({ The({
        IF ~c.ok THEN Fail
        ELSE [ok |-> TRUE, out |-> c.out, rest |-> c.rest] :
            c \in {preceded(a, take_until(<<";">>, a.rest))} }) :
            a \in {clear_lines_tab(stream)} })

extract_member(stream) ==
    The({ The({
        IF ~c.ok THEN Fail
        ELSE [ok |-> TRUE, out |-> c.out, rest |-> SubSeq(c.rest, 2, Len(c.rest))] :
            c \in {preceded(a, take_until(<<";">>, a.rest))} }) :
            a \in {clear_lines_tab(stream)} })

----------------------------------------------------------------------------
(* Characters *)

UPPER == <<"A", "B", "C", "D", "E", "F", "G", "H", "I", "J", "K", "L", "M",
           "N", "O", "P", "Q", "R", "S", "T", "U", "V", "W", "X", "Y", "Z">>
LOWER == <<"a", "b", "c", "d", "e", "f", "g", "h", "i", "j", "k", "l", "m",
           "n", "o", "p", "q", "r", "s", "t", "u", "v", "w", "x", "y", "z">>
DIGITS == {"0", "1", "2", "3", "4", "5", "6", "7", "8", "9"}

is_uppercase(c) == c \in Range(UPPER)
is_lowercase(c) == c \in Range(LOWER) \cup {E_ACUTE}
is_numeric(c) == c \in DIGITS
is_not_alphanumeric(c) == ~(is_uppercase(c) \/ is_lowercase(c) \/ is_numeric(c))
to_ascii_lowercase(c) ==
    IF is_uppercase(c) THEN LOWER[CHOOSE i \in 1..Len(UPPER) : UPPER[i] = c] ELSE c

----------------------------------------------------------------------------
(* inflector::cases::snakecase::to_snake_case, on ASCII names: separators  *)
(* (non-alphanumerics) become one "_", an upper-case letter next to a       *)
(* lower-case one starts a new word, everything is lower-cased.            *)

RECURSIVE trim_right(_)
trim_right(s) ==
    IF s # <<>> /\ is_not_alphanumeric(s[Len(s)])
    THEN trim_right(SubSeq(s, 1, Len(s) - 1)) ELSE s

nth_or_A(s, i) == IF i >= 1 /\ i <= Len(s) THEN s[i] ELSE "A"

requires_seperator(s, i, first_character) ==
    /\ ~first_character
    /\ is_uppercase(s[i])
    /\ (is_lowercase(nth_or_A(s, i + 1)) \/ is_lowercase(nth_or_A(s, i - 1)))

RECURSIVE to_case_snake_like(_, _, _, _)
to_case_snake_like(s, i, first_character, result) ==
    IF i > Len(trim_right(s)) THEN result
    ELSE IF is_not_alphanumeric(s[i])
         THEN to_case_snake_like(s, i + 1, TRUE,
                  IF first_character THEN result ELSE result \o <<"_">>)
    ELSE IF requires_seperator(s, i, first_character)
         THEN to_case_snake_like(s, i + 1, FALSE,
                  result \o <<"_", to_ascii_lowercase(s[i])>>)
    ELSE to_case_snake_like(s, i + 1, FALSE, result \o <<to_ascii_lowercase(s[i])>>)

to_snake_case(s) == to_case_snake_like(s, 1, TRUE, <<>>)

----------------------------------------------------------------------------
(* The type/field normalizer of generate.rs *)

ulong == <<"u", "l", "o", "n", "g">>
long == <<"l", "o", "n", "g">>
uint == <<"u", "i", "n", "t">>
int == <<"i", "n", "t">>
ushort == <<"u", "s", "h", "o", "r", "t">>
short == <<"s", "h", "o", "r", "t">>
byte == <<"b", "y", "t", "e">>

\* str::split(' '): one more word than there are spaces
RECURSIVE split_words_to_vec(_)
split_words_to_vec(declaration) ==
    The({ IF i = 0 THEN <<declaration>>
          ELSE <<SubSeq(declaration, 1, i - 1)>>
               \o The({ split_words_to_vec(rest) :
                        rest \in {SubSeq(declaration, i + 1, Len(declaration))} }) :
          i \in {find_substring(declaration, <<" ">>)} })

match_type_long_unsigned(slice) ==
    CASE slice = ulong -> <<"u", "6", "4">>
      [] slice = long -> <<"u", "6", "4">>
      [] slice = uint -> <<"u", "3", "2">>
      [] slice = int -> <<"i", "3", "2">>
      [] slice = ushort -> <<"u", "1", "6">>
      [] slice = short -> <<"i", "1", "6">>
      [] slice = byte -> <<"u", "8">>
      [] OTHER -> slice

match_type(slice) ==
    CASE slice = ulong -> <<"u", "6", "4">>
      [] slice = long -> <<"i", "6", "4">>
      [] slice = uint -> <<"u", "3", "2">>
      [] slice = int -> <<"i", "3", "2">>
      [] slice = ushort -> <<"u", "1", "6">>
      [] slice = short -> <<"i", "1", "6">>
      [] slice = byte -> <<"u", "8">>
      [] OTHER -> slice

\* the count given to str::replacen in array_extract_size
REPLACEN_COUNT == 10

\* str::replacen(|c| !char::is_numeric(c), "", count)
RECURSIVE replacen_non_numeric(_, _)
replacen_non_numeric(s, count) ==
    IF s = <<>> \/ count = 0 THEN s
    ELSE IF is_numeric(Head(s))
         THEN <<Head(s)>> \o replacen_non_numeric(Tail(s), count)
    ELSE replacen_non_numeric(Tail(s), count - 1)

array_extract_size(slice) == replacen_non_numeric(slice, REPLACEN_COUNT)

is_array(string) == \E i \in 1..Len(string) : string[i] = "<" \/ string[i] = ">"

\* format!("[u8; {}]", n)
format_u8_array(n) == <<"[", "u", "8", ";", " ">> \o n \o <<"]">>

\* one iteration of parse_stmts' loop: new_vec, or the panic of stmt_tokens[1]
parse_stmt_type_first(stmt) ==
    The({
        IF Len(stmt_tokens) < 2 THEN [ok |-> FALSE, v |-> <<>>]
        ELSE [ok |-> TRUE,
              v |-> << IF is_array(stmt_tokens[1])
                       THEN format_u8_array(array_extract_size(stmt_tokens[1]))
                       ELSE match_type(stmt_tokens[1]),
                       to_snake_case(stmt_tokens[2]) >>] :
        stmt_tokens \in {split_words_to_vec(stmt)} })

parse_stmt(stmt) ==
    The({
        IF Len(stmt_tokens) < 2 THEN [ok |-> FALSE, v |-> <<>>]
        ELSE [ok |-> TRUE,
              v |-> << to_snake_case(stmt_tokens[2]),
                       IF is_array(stmt_tokens[1])
                       THEN format_u8_array(array_extract_size(stmt_tokens[1]))
                       ELSE match_type(stmt_tokens[1]) >>] :
        stmt_tokens \in {split_words_to_vec(stmt)} })

\* final_vector, or the panic of the first statement with fewer than two words
parse_stmts(stmt_vector) ==
    The({ IF \E i \in 1..Len(each) : ~each[i].ok
          THEN [ok |-> FALSE, v |-> <<>>]
          ELSE [ok |-> TRUE, v |-> [i \in 1..Len(each) |-> each[i].v]] :
          each \in {[i \in 1..Len(stmt_vector) |-> parse_stmt(stmt_vector[i])]} })

----------------------------------------------------------------------------
(* petgraph::Graph as main uses it: node weights and edges, both in        *)
(* insertion order; a node is its index in nodes.                          *)

add_node(g, weight) == [g EXCEPT !.nodes = Append(@, weight)]
add_edge(g, a, b) == [g EXCEPT !.edges = Append(@, <<a, b>>)]

ENTRY_NAME == <<"e", "n", "t", "r", "y">>
NewGraph == add_node([nodes |-> <<>>, edges |-> <<>>], ENTRY_NAME)
entry == 1

\* main, lines 25-26
add_class_no_edge(g, identifier) == add_node(g, identifier)

add_class(g, identifier) == add_edge(add_node(g, identifier), entry, Len(g.nodes) + 1)

\* main, lines 38-39
add_field_node(g, class, c) == add_edge(add_node(g, c), class, Len(g.nodes) + 1)

\* the targets of a node's outgoing edges, in insertion order
RECURSIVE OutEdges(_, _)
OutEdges(es, n) ==
    IF es = <<>> THEN <<>>
    ELSE (IF Head(es)[1] = n THEN <<Head(es)[2]>> ELSE <<>>) \o OutEdges(Tail(es), n)

Children(g, n) == OutEdges(g.edges, n)
ChildWeights(g, n) == [i \in 1..Len(Children(g, n)) |-> g.nodes[Children(g, n)[i]]]

----------------------------------------------------------------------------
(* steam-mobile: Confirmations::filter_by_trade_offer_ids *)

\* Option<i64>
NoId == [is_some |-> FALSE, v |-> 0]
SomeId(i) == [is_some |-> TRUE, v |-> i]
\* Option<ConfirmationDetails>
NoDetails == [is_some |-> FALSE, trade_offer_id |-> NoId]
SomeDetails(t) == [is_some |-> TRUE, trade_offer_id |-> t]

\* Vec::retain with the closure of lines 113-119.  ok = FALSE: the closure
\* panicked in trade_offer_id.unwrap(); retain's drop guard then leaves the
\* elements kept so far followed by the ones not yet visited.
RECURSIVE retain_trade_offer_ids(_, _)
retain_trade_offer_ids(cs, ids) ==
    IF cs = <<>> THEN [ok |-> TRUE, v |-> <<>>]
    ELSE LET c == Head(cs)
         IN  IF c.details.is_some
             THEN IF ~c.details.trade_offer_id.is_some
                  THEN [ok |-> FALSE, v |-> cs]
                  ELSE LET r == retain_trade_offer_ids(Tail(cs), ids)
                           keep == \E i \in 1..Len(ids) :
                                      ids[i] = c.details.trade_offer_id.v
                       IN  [ok |-> r.ok, v |-> (IF keep THEN <<c>> ELSE <<>>) \o r.v]
             ELSE retain_trade_offer_ids(Tail(cs), ids)

----------------------------------------------------------------------------
(* The documents main is run on.  A document is written from blocks; the   *)
(* model keeps the blocks next to the bytes, so that what the extractors   *)
(* find can be compared with what was written.                             *)

LF == <<"\n">>
CRLF == <<"\r", "\n">>

\* nl TAB type SP name ;
DeclLine(nl, f) == nl \o <<"\t">> \o f[1] \o <<" ">> \o f[2] \o <<";">>

\* class Name<Generic> nl { declarations nl };
ClassBlock(name, generic, nl, fields) ==
    CLASS \o name \o <<"<">> \o generic \o <<">">> \o nl \o <<"{">>
    \o Concat([i \in 1..Len(fields) |-> DeclLine(nl, fields[i])])
    \o nl \o CLASS_EOF

\* class Name nl { declarations nl };   (no generic parameter)
PlainClassBlock(name, nl, fields) ==
    CLASS \o name \o nl \o <<"{">>
    \o Concat([i \in 1..Len(fields) |-> DeclLine(nl, fields[i])])
    \o nl \o CLASS_EOF

byte4 == byte \o <<"<", "4", ">">>

BlockIds == {"text", "enum", "empty", "one", "two",
             "nolt", "bodylt", "nobrace", "onetok", "unterminated", "unindented"}

WellFormedIds == {"text", "enum", "empty", "one", "two"}

\* the bytes of a block
BlockText(id) ==
    CASE id = "text" -> <<"#", "i", LEAD, CONT, "\n">>
      [] id = "enum" -> <<"e", " ", "E", "{", "A", ";", "}", ";", "\n">>
      [] id = "empty" -> ClassBlock(<<"A">>, <<"E">>, LF, <<>>)
      [] id = "one" -> ClassBlock(<<"B", "c">>, <<"E">>, LF, << <<uint, <<"a", "B">>>> >>)
      [] id = "two" -> ClassBlock(<<"D">>, <<"E">>, CRLF,
                          << <<byte4, <<"x">>>>, <<<<"T", LEAD, CONT>>, <<"y", "Z">>>> >>)
      [] id = "nolt" -> PlainClassBlock(<<"F">>, LF, << <<int, <<"a">>>> >>)
      [] id = "bodylt" -> PlainClassBlock(<<"G">>, LF, << <<byte4, <<"a">>>> >>)
      [] id = "nobrace" -> CLASS \o <<"H", "<", "E", ">">> \o CLASS_EOF
      [] id = "onetok" -> CLASS \o <<"I", "<", "E", ">", "{", "\n", "\t", "q", ";", "\n">>
                          \o CLASS_EOF
      [] id = "unterminated" -> CLASS \o <<"J", "<", "E", ">", "{", "\n", "}">>
      [] id = "unindented" -> CLASS \o <<"K", "<", "E", ">", "{">> \o int
                              \o <<" ", "a", ";", "\n", "\t">> \o int
                              \o <<" ", "b", ";", "\n">> \o CLASS_EOF

\* what a well-formed block declares: its classes, each a name and the
\* normalized (name, wire type) pairs of its fields, in source order
BlockClasses(id) ==
    CASE id = "empty" -> << [name |-> <<"A">>, fields |-> <<>>] >>
      [] id = "one" -> << [name |-> <<"B", "c">>,
                           fields |-> << <<<<"a", "_", "b">>, <<"u", "3", "2">>>> >>] >>
      [] id = "two" -> << [name |-> <<"D">>,
                           fields |-> << <<<<"x">>, <<"[", "u", "8", ";", " ", "4", "]">>>>,
                                         <<<<"y", "_", "z">>, <<"T", E_ACUTE>>>> >>] >>
      [] OTHER -> <<>>

Document(bs) == Concat([i \in 1..Len(bs) |-> BlockText(bs[i])])
DeclaredClasses(bs) == Concat([i \in 1..Len(bs) |-> BlockClasses(bs[i])])
WellFormed(bs) == \A i \in 1..Len(bs) : bs[i] \in WellFormedIds

----------------------------------------------------------------------------
(* The state after construction *)

\* main, lines 14-19
Init ==
    /\ blocks \in SeqsUpTo(BlockIds, MaxBlocks)
    /\ file_steam_msg = Document(blocks)
    /\ next_block = file_steam_msg
    /\ graph = NewGraph
    /\ value = NoValue /\ class_node = 0
    /\ attributes_code = <<>> /\ tokens = <<>> /\ stmts = <<>>
    /\ members = <<>> /\ decls = <<>> /\ parsed_stmts = <<>>
    /\ confirmations = <<>> /\ fetched = <<>> /\ trade_offer_ids = <<>>
    /\ panic = "none"
    /\ pc = "extract_class"

----------------------------------------------------------------------------
(* main *)

Abort(what) == pc' = "aborted" /\ panic' = what

\* lines 21-26: the loop test, the class name, the class node and its edge
ExtractClass ==
    /\ pc = "extract_class"
    /\ \E r \in {extract_class_code(next_block)} : \E id \in {from_utf8(r.v[3])} :
           IF r.kind = "None"
           THEN pc' = "emit" /\ UNCHANGED <<value, graph, class_node, panic>>
           ELSE IF r.kind = "panic"
           THEN Abort("take_until_lessthan") /\ UNCHANGED <<value, graph, class_node>>
           ELSE IF ~id.ok
           THEN Abort("from_utf8") /\ value' = r.v /\ UNCHANGED <<graph, class_node>>
           ELSE /\ value' = r.v
                /\ graph' = add_class(graph, id.val)
                /\ class_node' = Len(graph.nodes) + 1
                /\ pc' = "extract_attr"
                /\ UNCHANGED panic
    /\ UNCHANGED <<file_steam_msg, blocks, next_block, attributes_code, tokens, stmts,
                   members, decls, parsed_stmts, confirmations, fetched, trade_offer_ids>>

\* line 28: extract_attr_lines(value.0).unwrap()
ExtractAttrLines ==
    /\ pc = "extract_attr"
    /\ \E member \in {extract_attr_lines(value[1])} :
           IF member.ok
           THEN /\ attributes_code' = member.rest
                /\ tokens' = <<>>
                /\ pc' = "extract_members"
                /\ UNCHANGED panic
           ELSE Abort("extract_attr_lines") /\ UNCHANGED <<attributes_code, tokens>>
    /\ UNCHANGED <<file_steam_msg, blocks, next_block, value, graph, class_node, stmts,
                   members, decls, parsed_stmts, confirmations, fetched, trade_offer_ids>>

\* extract_members_exhaustive, one turn of its loop (lines 116-119); when the
\* loop ends, the members become Strings (main, lines 30-33)
ExtractMember ==
    /\ pc = "extract_members"
    /\ \E m \in {extract_member(attributes_code)} : \E strings \in {members_utf8(tokens)} :
           IF m.ok
           THEN /\ tokens' = Append(tokens, m.out)
                /\ attributes_code' = m.rest
                /\ UNCHANGED <<members, pc, panic>>
           ELSE IF \E i \in 1..Len(strings) : ~strings[i].ok
           THEN Abort("from_utf8") /\ UNCHANGED <<tokens, attributes_code, members>>
           ELSE /\ members' = [i \in 1..Len(strings) |-> strings[i].val]
                /\ pc' = "parse_stmts"
                /\ UNCHANGED <<tokens, attributes_code, panic>>
    /\ UNCHANGED <<file_steam_msg, blocks, next_block, value, graph, class_node, stmts,
                   decls, parsed_stmts, confirmations, fetched, trade_offer_ids>>

\* line 35: parse_stmts(members)
ParseStmts ==
    /\ pc = "parse_stmts"
    /\ \E r \in {parse_stmts(members)} :
           IF r.ok
           THEN parsed_stmts' = r.v /\ pc' = "add_fields" /\ UNCHANGED panic
           ELSE Abort("stmt_tokens[1]") /\ UNCHANGED parsed_stmts
    /\ UNCHANGED <<file_steam_msg, blocks, next_block, value, graph, class_node,
                   attributes_code, tokens, stmts, members, decls,
                   confirmations, fetched, trade_offer_ids>>

\* lines 36-41, one element c of one stmt: a node and the edge to it
AddFieldNode ==
    /\ pc = "add_fields"
    /\ parsed_stmts # <<>>
    /\ LET stmt == Head(parsed_stmts)
       IN  /\ graph' = add_field_node(graph, class_node, Head(stmt))
           /\ parsed_stmts' = IF Len(stmt) = 1 THEN Tail(parsed_stmts)
                              ELSE <<Tail(stmt)>> \o Tail(parsed_stmts)
    /\ UNCHANGED <<file_steam_msg, blocks, next_block, value, class_node,
                   attributes_code, tokens, stmts, members, decls,
                   confirmations, fetched, trade_offer_ids, panic, pc>>

\* line 43: next_block = value.1
NextBlock ==
    /\ pc = "add_fields"
    /\ parsed_stmts = <<>>
    /\ next_block' = value[2]
    /\ pc' = "extract_class"
    /\ UNCHANGED <<file_steam_msg, blocks, value, graph, class_node,
                   attributes_code, tokens, stmts, members, decls, parsed_stmts,
                   confirmations, fetched, trade_offer_ids, panic>>

\* line 45: generate_file_from_tree(graph, entry)
Emit ==
    /\ pc = "emit"
    /\ pc' = "done"
    /\ UNCHANGED <<file_steam_msg, blocks, next_block, value, graph, class_node,
                   attributes_code, tokens, stmts, members, decls, parsed_stmts,
                   confirmations, fetched, trade_offer_ids, panic>>

Next ==
    \/ ExtractClass
    \/ ExtractAttrLines
    \/ ExtractMember
    \/ ParseStmts
    \/ AddFieldNode
    \/ NextBlock
    \/ Emit

Spec == Init /\ [][Next]_vars

\* main is one sequential thread: a step that can be taken is taken
FairSpec == Spec /\ WF_vars(Next)

----------------------------------------------------------------------------
(* extract_members_exhaustive on its own: class bodies written from        *)
(* statements, each a leading run of \r \n \t (empty: unindented), a text   *)
(* without ";" that starts with none of them, and ";".                      *)

LeadRuns == {<<>>, <<"\t">>, <<"\r", "\n", "\t">>}
Texts == {<<>>, <<"u", " ", "v">>, <<"q", "\t", "r">>}
Trails == {<<>>, <<"\r", "\n">>}
StmtShapes == [lead : LeadRuns, text : Texts]

Body(ss, trail) ==
    Concat([i \in 1..Len(ss) |-> ss[i].lead \o ss[i].text \o <<";">>]) \o trail

InitMembers ==
    /\ stmts \in SeqsUpTo(StmtShapes, MaxStmts)
    /\ \E trail \in Trails : attributes_code = Body(stmts, trail)
    /\ tokens = <<>>
    /\ file_steam_msg = <<>> /\ blocks = <<>> /\ next_block = <<>>
    /\ value = NoValue /\ graph = NewGraph /\ class_node = 0
    /\ members = <<>> /\ decls = <<>> /\ parsed_stmts = <<>>
    /\ confirmations = <<>> /\ fetched = <<>> /\ trade_offer_ids = <<>>
    /\ panic = "none"
    /\ pc = "extract_members"

NextMembers == ExtractMember

SpecMembers == InitMembers /\ [][NextMembers]_vars

----------------------------------------------------------------------------
(* parse_stmts on its own: declarations written from words joined by one   *)
(* space.                                                                  *)

giftId == <<"g", "i", "f", "t", "I", "d">>
AccountId == <<"A", "c", "c", "o", "u", "n", "t", "I", "d">>
steamidmarshal == <<"s", "t", "e", "a", "m", "i", "d", "m", "a", "r", "s", "h", "a", "l">>
gameid_t8 == <<"g", "a", "m", "e", "i", "d", "_", "t", "<", "8", ">">>
steamid_t8 == <<"s", "t", "e", "a", "m", "i", "d", "_", "t", "<", "8", ">">>
byte10 == byte \o <<"<", "1", "0", ">">>
byte_gt == byte \o <<">">>

TypeTokens == {ulong, long, uint, int, ushort, short, byte, steamidmarshal,
               byte10, byte_gt, gameid_t8, steamid_t8}

DeclShapes ==
    {<<t, giftId>> : t \in TypeTokens}
    \cup {<<uint, AccountId, <<"=">>, <<"0">>>>, <<byte4, <<"x">>, <<"y">>>>,
          <<int, <<>>>>, <<<<"q">>>>, <<<<>>>>}

RECURSIVE Join(_)
Join(words) ==
    IF Len(words) = 1 THEN words[1] ELSE words[1] \o <<" ">> \o Join(Tail(words))

InitStmts ==
    /\ decls \in SeqsUpTo(DeclShapes, MaxDecls)
    /\ members = [i \in 1..Len(decls) |-> Join(decls[i])]
    /\ file_steam_msg = <<>> /\ blocks = <<>> /\ next_block = <<>>
    /\ value = NoValue /\ graph = NewGraph /\ class_node = 0
    /\ attributes_code = <<>> /\ tokens = <<>> /\ stmts = <<>>
    /\ parsed_stmts = <<>>
    /\ confirmations = <<>> /\ fetched = <<>> /\ trade_offer_ids = <<>>
    /\ panic = "none"
    /\ pc = "parse_stmts"

NextStmts == ParseStmts

SpecStmts == InitStmts /\ [][NextStmts]_vars

----------------------------------------------------------------------------
(* Confirmations::filter_by_trade_offer_ids *)

DetailShapes == {NoDetails, SomeDetails(NoId)} \cup {SomeDetails(SomeId(i)) : i \in 1..3}

Confirmation(i, d) ==
    [id |-> i,
     kind |-> IF d.is_some /\ d.trade_offer_id.is_some THEN "Trade" ELSE "Market",
     details |-> d]

InitFilter ==
    /\ \E ds \in SeqsUpTo(DetailShapes, MaxConfs) :
          fetched = [i \in 1..Len(ds) |-> Confirmation(i, ds[i])]
    /\ confirmations = fetched
    /\ trade_offer_ids \in SeqsUpTo(1..2, MaxIds)
    /\ file_steam_msg = <<>> /\ blocks = <<>> /\ next_block = <<>>
    /\ value = NoValue /\ graph = NewGraph /\ class_node = 0
    /\ attributes_code = <<>> /\ tokens = <<>> /\ stmts = <<>>
    /\ members = <<>> /\ decls = <<>> /\ parsed_stmts = <<>>
    /\ panic = "none"
    /\ pc = "filter"

\* lines 109-120
FilterByTradeOfferIds ==
    /\ pc = "filter"
    /\ LET r == retain_trade_offer_ids(confirmations, trade_offer_ids)
       IN  /\ confirmations' = r.v
           /\ IF r.ok THEN pc' = "done" /\ UNCHANGED panic
              ELSE Abort("trade_offer_id.unwrap")
    /\ UNCHANGED <<file_steam_msg, blocks, next_block, value, graph, class_node,
                   attributes_code, tokens, stmts, members, decls, parsed_stmts,
                   fetched, trade_offer_ids>>

NextFilter == FilterByTradeOfferIds

SpecFilter == InitFilter /\ [][NextFilter]_vars

----------------------------------------------------------------------------
(* Properties *)

Occurrences(t, s) ==
    Cardinality({i \in 1..(Len(s) - Len(t) + 1) : SubSeq(s, i, i + Len(t) - 1) = t})

InClassBody == pc \in {"extract_attr", "extract_members", "parse_stmts", "add_fields"}

LoopFinished == pc \in {"emit", "done"}

RootClassNames == ChildWeights(graph, entry)

DeclaredNames == [i \in 1..Len(DeclaredClasses(blocks)) |-> DeclaredClasses(blocks)[i].name]

\* the classes main has taken from the document so far: the `class ` keywords
\* it has passed, plus the one whose body it is working on
ClassesTaken ==
    Occurrences(CLASS, file_steam_msg) - Occurrences(CLASS, next_block)
    + (IF InClassBody THEN 1 ELSE 0)

\* C1: on a well-formed document of k classes the root's outgoing edges lead, in
\* order, to the classes taken from the document so far and to nothing else, at
\* every point of main; when the extraction loop has finished they are exactly
\* the k classes of the document, in document order.
C1_RootEdgesFollowDocument ==
    WellFormed(blocks) =>
        /\ ClassesTaken <= Len(DeclaredNames)
        /\ RootClassNames = SubSeq(DeclaredNames, 1, ClassesTaken)
        /\ LoopFinished => RootClassNames = DeclaredNames

C1_Witness ==
    /\ pc = "done"
    /\ WellFormed(blocks)
    /\ Len(Children(graph, entry)) = 2
    /\ RootClassNames[1] # RootClassNames[2]

\* C2: while main inserts the fields of a class, the class node's children followed
\* by the elements still to be inserted are always name1, type1, name2, type2, ...
\* of the parsed declarations; the class's edges are the newest edges of the graph,
\* directly after the root's edge to the class, so nothing is inserted between
\* them; when the class is complete it has 2m children for its m extracted
\* declarations; and on a well-formed document every class node ends with the
\* (name, type) pairs the document declares for it, in source order.
C2_FieldEdgesAlternate ==
    /\ pc = "add_fields" =>
          LET kids == Children(graph, class_node)
              n == Len(kids)
              e == Len(graph.edges)
          IN  /\ ChildWeights(graph, class_node) \o Concat(parsed_stmts)
                    = Concat(parse_stmts(members).v)
              /\ e > n /\ graph.edges[e - n] = <<entry, class_node>>
              /\ \A i \in 1..n : graph.edges[e - n + i] = <<class_node, class_node + i>>
              /\ parsed_stmts = <<>> => n = 2 * Len(tokens)
    /\ (pc = "done" /\ WellFormed(blocks)) =>
          \A i \in 1..Len(DeclaredClasses(blocks)) :
              ChildWeights(graph, Children(graph, entry)[i])
                  = Concat(DeclaredClasses(blocks)[i].fields)

C2_Witness ==
    /\ pc = "add_fields"
    /\ parsed_stmts = <<>>
    /\ Len(tokens) = 2
    /\ Len(Children(graph, class_node)) = 4
    /\ Len(Children(graph, entry)) = 2

Indented(st) == st.lead # <<>>

StmtTexts(ss) == [i \in 1..Len(ss) |-> ss[i].text]

\* C3: a body of n statements, each after a non-empty run of \r \n \t and ended by
\* ";", yields exactly the n statement texts, in order.
C3_IndentedStatementsAllExtracted ==
    (\A i \in 1..Len(stmts) : Indented(stmts[i])) =>
        /\ pc # "aborted"
        /\ pc = "parse_stmts" => tokens = StmtTexts(stmts)

C3_Witness ==
    /\ pc = "parse_stmts"
    /\ Len(stmts) = 3
    /\ \A i \in 1..Len(stmts) : Indented(stmts[i])
    /\ Len(tokens) = 3
    /\ tokens[1] # tokens[2]

OnlyDigits(s) == SelectSeq(s, LAMBDA c : c \in DIGITS)

HasAngle(s) == "<" \in Range(s) \/ ">" \in Range(s)

\* C4: a type token with "<" or ">" gives the wire type [u8; N], N being the
\* token's digits and nothing else, however many other characters it has; a token
\* without them does not give an array.
C4_ArraySizeIsAllDigits ==
    pc = "add_fields" =>
        \A i \in 1..Len(decls) :
            IF HasAngle(decls[i][1])
            THEN parsed_stmts[i][2] = <<"[", "u", "8", ";", " ">>
                                      \o OnlyDigits(decls[i][1]) \o <<"]">>
            ELSE parsed_stmts[i][2] = <<>> \/ Head(parsed_stmts[i][2]) # "["

\* C5: no document makes main abort.
C5_NeverAborts == pc # "aborted"

UpTo(s, c) == IF c \in Range(s) THEN SubSeq(s, 1, MinOf({i \in 1..Len(s) : s[i] = c}) - 1) ELSE s

\* C6 as stated: the members extracted are all the indented statements of the
\* body, in order, whatever unindented statements stand between them.
C6_AllIndentedExtracted ==
    pc = "parse_stmts" => tokens = StmtTexts(SelectSeq(stmts, Indented))

RECURSIVE IndentedPrefix(_)
IndentedPrefix(ss) ==
    IF ss = <<>> \/ ~Indented(Head(ss)) THEN <<>>
    ELSE <<Head(ss)>> \o IndentedPrefix(Tail(ss))

\* C6 amended: the members extracted are the indented statements that come before
\* the first unindented one, in order; the first unindented statement ends the
\* extraction, and it and everything after it is dropped.
C6_IndentedPrefixExtracted ==
    /\ pc # "aborted"
    /\ pc = "parse_stmts" => tokens = StmtTexts(IndentedPrefix(stmts))

C6_Witness ==
    /\ pc = "parse_stmts"
    /\ Len(stmts) = 3
    /\ Indented(stmts[1]) /\ ~Indented(stmts[2]) /\ Indented(stmts[3])
    /\ tokens = <<stmts[1].text>>

\* C7: the class name of a block is its header (the part before "{") up to the
\* first "<", and never contains "{".
C7_ClassNameFromHeader ==
    pc = "extract_attr" =>
        /\ value[3] = UpTo(UpTo(value[1], "{"), "<")
        /\ "{" \notin Range(value[3])
        /\ graph.nodes[class_node] = value[3]

WireTable(t) ==
    IF t = <<"u", "l", "o", "n", "g">> THEN <<"u", "6", "4">>
    ELSE IF t = <<"l", "o", "n", "g">> THEN <<"i", "6", "4">>
    ELSE IF t = <<"u", "i", "n", "t">> THEN <<"u", "3", "2">>
    ELSE IF t = <<"i", "n", "t">> THEN <<"i", "3", "2">>
    ELSE IF t = <<"u", "s", "h", "o", "r", "t">> THEN <<"u", "1", "6">>
    ELSE IF t = <<"s", "h", "o", "r", "t">> THEN <<"i", "1", "6">>
    ELSE IF t = <<"b", "y", "t", "e">> THEN <<"u", "8">>
    ELSE t

\* C8: for declarations of two or more words, parse_stmts returns one pair per
\* declaration, in order: the snake-cased second word and, when the first word has
\* no "<" or ">", its entry in the table, or the word itself when it has none.
C8_OnePairPerDeclaration ==
    (\A i \in 1..Len(decls) : Len(decls[i]) >= 2) =>
        /\ pc # "aborted"
        /\ pc = "add_fields" =>
              /\ Len(parsed_stmts) = Len(decls)
              /\ \A i \in 1..Len(decls) :
                    /\ Len(parsed_stmts[i]) = 2
                    /\ parsed_stmts[i][1] = to_snake_case(decls[i][2])
                    /\ ~HasAngle(decls[i][1]) =>
                          parsed_stmts[i][2] = WireTable(decls[i][1])

C8_Witness ==
    /\ pc = "add_fields"
    /\ Len(decls) = 2
    /\ decls[1][1] = long /\ parsed_stmts[1] = <<<<"g", "i", "f", "t", "_", "i", "d">>, <<"i", "6", "4">>>>
    /\ Len(decls[2]) > 2 /\ decls[2][1] = uint

WantedConfirmation(c) ==
    /\ c.details.is_some
    /\ c.details.trade_offer_id.is_some
    /\ c.details.trade_offer_id.v \in Range(trade_offer_ids)

\* C9: the filter always completes, and leaves exactly the confirmations whose
\* details carry one of the given trade-offer ids, in their order, unchanged.
C9_FilterCompletes ==
    pc # "filter" =>
        /\ pc = "done"
        /\ confirmations = SelectSeq(fetched, WantedConfirmation)

\* C10: the pipeline terminates.  A successful extract_class_code leaves a rest
\* strictly shorter than its input and a successful extract_member likewise; the
\* class loop runs at most once per `class ` in the document (each run adds one
\* root edge); with no `class ` the graph handed over is the root alone; and main
\* reaches the hand-over or an abort.
C10_PipelineTerminates ==
    /\ [][(pc = "extract_class" /\ pc' = "extract_attr")
              => Len(value'[2]) < Len(next_block)]_vars
    /\ [][(pc = "extract_members" /\ pc' = "extract_members")
              => Len(attributes_code') < Len(attributes_code)]_vars
    /\ [](Len(Children(graph, entry)) <= Occurrences(CLASS, file_steam_msg))
    /\ []((pc = "done" /\ Occurrences(CLASS, file_steam_msg) = 0) => graph = NewGraph)
    /\ <>(pc \in {"done", "aborted"})

C10_Witness ==
    /\ pc = "done"
    /\ Len(Children(graph, entry)) = 2
    /\ \E c \in Range(Children(graph, entry)) : Len(Children(graph, c)) = 4

====
